---------------------------- MODULE Spec2Model ----------------------------
(***************************************************************************)
(* validate-this-path: src/src/lib/pathUtils.ts.                           *)
(*                                                                         *)
(* A path string is a sequence of characters (one-character strings; the   *)
(* control character \x00 is written "NUL").  An optional value (an        *)
(* option the caller may leave out, a result field that may be absent) is  *)
(* None (JavaScript's undefined) or Some(v).                               *)
(*                                                                         *)
(* The library calls Node's `path` module, which is path.win32 on a        *)
(* Windows host and path.posix on any other: both are modelled (after      *)
(* lib/path.js of Node 20, the version package.json's @types/node names)   *)
(* and selected by the host platform.  path.relative also reads the       *)
(* working directory of the process, cwd.                                  *)
(***************************************************************************)
EXTENDS Integers, Sequences, FiniteSets, TLC

VARIABLES host, cwd, fn, path, opts, result, pc, pass

vars == <<host, cwd, fn, path, opts, result, pc, pass>>

---------------------------------------------------------------------------
(* Bounds of the model *)

\* longest path enumerated exhaustively over Alphabet
MaxLen == 3

\* how many times normalizePath is applied to its own output
MaxPasses == 2

\* the maxLength override callers pass (besides 0 and none)
LimitOverride == 2

\* longest segment of a joinPaths call with two segments
MaxSegLen == 2

---------------------------------------------------------------------------
(* Optional values *)

None == <<>>
Some(v) == <<v>>
\* x ?? d
OrElse(x, d) == IF x = None THEN d ELSE x[1]

---------------------------------------------------------------------------
(* Characters and strings *)

NUL == "NUL"
ControlChars == {NUL, "TAB", "US"}
LowerCaseLetters == {"a", "e", "f", "h", "i", "l", "o", "p", "t", "x"}
UpperCaseLetters == {"A"}

\* the characters paths are enumerated over: separators, dot, a letter, a
\* character illegal on Windows only, one illegal on both
Alphabet == {"/", "\\", ".", "a", ":", NUL}

\* the same for normalizePath, where case matters and legality does not
CaseAlphabet == {"/", "\\", ".", "a", "A", ":"}

RECURSIVE StringsOfLen(_, _)
StringsOfLen(chars, n) ==
    IF n = 0 THEN {<<>>}
    ELSE {Append(s, c) : s \in StringsOfLen(chars, n - 1), c \in chars}

Strings(chars, n) == UNION {StringsOfLen(chars, k) : k \in 0..n}

Repeat(c, n) == [i \in 1..n |-> c]

\* zero-based charAt, as the source indexes strings
CharAt(s, i) == s[i + 1]

\* s.slice(from, to), zero-based, to exclusive
Slice(s, from, to) == SubSeq(s, from + 1, to)

\* s.includes(sub)
Includes(s, sub) ==
    \E i \in 0..(Len(s) - Len(sub)) : Slice(s, i, i + Len(sub)) = sub

DotDot == <<".", ".">>
Dot == <<".">>

SetMin(S) == CHOOSE x \in S : \A y \in S : x <= y

Last(s) == s[Len(s)]
Front(s) == SubSeq(s, 1, Len(s) - 1)

ToLowerChar(c) == IF c = "A" THEN "a" ELSE c

\* String.prototype.toLowerCase
ToLowerCase(s) == [i \in 1..Len(s) |-> ToLowerChar(s[i])]

---------------------------------------------------------------------------
(* Node's path module (lib/path.js), as imported at pathUtils.ts:1 *)

isPathSeparator(c) == c \in {"/", "\\"}
isPosixPathSeparator(c) == c = "/"
isWindowsDeviceRoot(c) == c \in LowerCaseLetters \cup UpperCaseLetters

WinSeps == {"/", "\\"}
PosixSeps == {"/"}

\* zero-based start offsets of the non-empty segments of s
SegmentStarts(s, seps) ==
    {i \in 0..(Len(s) - 1) :
        /\ CharAt(s, i) \notin seps
        /\ (i = 0 \/ CharAt(s, i - 1) \in seps)}

\* zero-based end (exclusive) of the segment that starts at i
SegmentEnd(s, seps, i) ==
    LET later == {j \in (i + 1)..(Len(s) - 1) : CharAt(s, j) \in seps}
    IN  IF later = {} THEN Len(s) ELSE SetMin(later)

RECURSIVE SegmentsFrom(_, _, _)
SegmentsFrom(s, seps, starts) ==
    IF starts = {} THEN <<>>
    ELSE LET i == SetMin(starts)
         IN  <<Slice(s, i, SegmentEnd(s, seps, i))>>
                \o SegmentsFrom(s, seps, starts \ {i})

\* the non-empty segments of s between separators, in order
Segments(s, seps) == SegmentsFrom(s, seps, SegmentStarts(s, seps))

RECURSIVE JoinSegments(_, _)
JoinSegments(segs, sep) ==
    IF segs = <<>> THEN <<>>
    ELSE IF Len(segs) = 1 THEN segs[1]
    ELSE segs[1] \o <<sep>> \o JoinSegments(Tail(segs), sep)

\* the loop of normalizeString over the segments: "." is dropped, ".." pops
\* the last kept segment unless there is none or it is "..", and is then kept
\* only if allowAboveRoot
RECURSIVE ResolveSegments(_, _, _)
ResolveSegments(segs, res, allowAboveRoot) ==
    IF segs = <<>> THEN res
    ELSE LET seg == Head(segs)
             rest == Tail(segs)
         IN  IF seg = Dot THEN ResolveSegments(rest, res, allowAboveRoot)
             ELSE IF seg = DotDot
             THEN IF res # <<>> /\ Last(res) # DotDot
                  THEN ResolveSegments(rest, Front(res), allowAboveRoot)
                  ELSE IF allowAboveRoot
                  THEN ResolveSegments(rest, Append(res, DotDot), allowAboveRoot)
                  ELSE ResolveSegments(rest, res, allowAboveRoot)
             ELSE ResolveSegments(rest, Append(res, seg), allowAboveRoot)

normalizeString(s, allowAboveRoot, separator, seps) ==
    JoinSegments(ResolveSegments(Segments(s, seps), <<>>, allowAboveRoot),
                 separator)

\* path.posix.normalize
posixNormalize(p) ==
    IF Len(p) = 0 THEN Dot
    ELSE LET isAbsolute == CharAt(p, 0) = "/"
             trailingSeparator == CharAt(p, Len(p) - 1) = "/"
             body == normalizeString(p, ~isAbsolute, "/", PosixSeps)
         IN  IF Len(body) = 0
             THEN IF isAbsolute THEN <<"/">>
                  ELSE IF trailingSeparator THEN <<".", "/">> ELSE Dot
             ELSE LET withTrail == IF trailingSeparator
                                   THEN Append(body, "/") ELSE body
                  IN  IF isAbsolute THEN <<"/">> \o withTrail ELSE withTrail

\* first offset k >= j that is the end of p or where being a separator
\* differs from `want` (the while loops of win32.normalize)
ScanWhile(p, j, want) ==
    SetMin({k \in j..Len(p) :
               k = Len(p) \/ (isPathSeparator(CharAt(p, k)) # want)})

\* the root of a Windows path: [device, rootEnd, isAbsolute, whole], where
\* whole is the result when the path is a UNC root and nothing else
win32Root(p) ==
    LET len == Len(p)
        plain == [device |-> None, rootEnd |-> 0, isAbsolute |-> FALSE,
                  whole |-> None]
    IN  IF isPathSeparator(CharAt(p, 0))
        THEN IF isPathSeparator(CharAt(p, 1))
             THEN LET j1 == ScanWhile(p, 2, FALSE)
                      j2 == ScanWhile(p, j1, TRUE)
                      j3 == ScanWhile(p, j2, FALSE)
                      firstPart == Slice(p, 2, j1)
                      unc == [plain EXCEPT !.isAbsolute = TRUE]
                  IN  IF j1 < len /\ j1 # 2 /\ j2 < len /\ j2 # j1
                      THEN IF j3 = len
                           THEN [unc EXCEPT !.whole =
                                    Some(<<"\\", "\\">> \o firstPart \o <<"\\">>
                                         \o Slice(p, j2, len) \o <<"\\">>)]
                           ELSE IF j3 # j2
                           THEN [unc EXCEPT
                                    !.device = Some(<<"\\", "\\">> \o firstPart
                                                \o <<"\\">> \o Slice(p, j2, j3)),
                                    !.rootEnd = j3]
                           ELSE unc
                      ELSE unc
             ELSE [plain EXCEPT !.isAbsolute = TRUE, !.rootEnd = 1]
        ELSE IF isWindowsDeviceRoot(CharAt(p, 0)) /\ CharAt(p, 1) = ":"
        THEN IF len > 2 /\ isPathSeparator(CharAt(p, 2))
             THEN [plain EXCEPT !.device = Some(Slice(p, 0, 2)),
                                !.rootEnd = 3, !.isAbsolute = TRUE]
             ELSE [plain EXCEPT !.device = Some(Slice(p, 0, 2)), !.rootEnd = 2]
        ELSE plain

\* path.win32.normalize
win32Normalize(p) ==
    LET len == Len(p)
    IN  IF len = 0 THEN Dot
        ELSE IF len = 1
        THEN IF isPosixPathSeparator(CharAt(p, 0)) THEN <<"\\">> ELSE p
        ELSE LET root == win32Root(p)
                 resolved == IF root.rootEnd < len
                             THEN normalizeString(Slice(p, root.rootEnd, len),
                                                  ~root.isAbsolute, "\\", WinSeps)
                             ELSE <<>>
                 dotted == IF Len(resolved) = 0 /\ ~root.isAbsolute
                           THEN Dot ELSE resolved
                 tail == IF Len(dotted) > 0
                            /\ isPathSeparator(CharAt(p, len - 1))
                         THEN Append(dotted, "\\") ELSE dotted
             IN  IF root.whole # None THEN root.whole[1]
                 ELSE IF root.device = None
                 THEN IF root.isAbsolute THEN <<"\\">> \o tail ELSE tail
                 ELSE IF root.isAbsolute
                 THEN root.device[1] \o <<"\\">> \o tail
                 ELSE root.device[1] \o tail

\* path.posix.isAbsolute
posixIsAbsolute(p) == Len(p) > 0 /\ CharAt(p, 0) = "/"

\* path.win32.isAbsolute
win32IsAbsolute(p) ==
    /\ Len(p) > 0
    /\ \/ isPathSeparator(CharAt(p, 0))
       \/ /\ Len(p) > 2
          /\ isWindowsDeviceRoot(CharAt(p, 0))
          /\ CharAt(p, 1) = ":"
          /\ isPathSeparator(CharAt(p, 2))

\* path.normalize / path.isAbsolute of the running process
pathNormalize(h, p) == IF h = "windows" THEN win32Normalize(p) ELSE posixNormalize(p)
pathIsAbsolute(h, p) == IF h = "windows" THEN win32IsAbsolute(p) ELSE posixIsAbsolute(p)

\* the loop of path.join: the non-empty arguments, `separator` between them
\* (<<>> stands for joined === undefined)
JoinedArgs(args, separator) ==
    JoinSegments(SelectSeq(args, LAMBDA a : Len(a) > 0), separator)

\* path.posix.join
posixJoin(args) ==
    LET joined == JoinedArgs(args, "/")
    IN  IF Len(args) = 0 \/ joined = <<>> THEN Dot
        ELSE posixNormalize(joined)

\* path.win32.join: leading separators that would make normalize see a UNC
\* root where the first argument has none are replaced by one backslash
win32Join(args) ==
    LET joined == JoinedArgs(args, "\\")
        firstPart == SelectSeq(args, LAMBDA a : Len(a) > 0)[1]
        firstLen == Len(firstPart)
        uncFirst == /\ firstLen > 2
                    /\ isPathSeparator(CharAt(firstPart, 0))
                    /\ isPathSeparator(CharAt(firstPart, 1))
                    /\ ~isPathSeparator(CharAt(firstPart, 2))
        needsReplace == ~uncFirst
        slashCount == ScanWhile(joined, 0, TRUE)
        replaced == IF needsReplace /\ slashCount >= 2
                    THEN <<"\\">> \o Slice(joined, slashCount, Len(joined))
                    ELSE joined
    IN  IF Len(args) = 0 \/ joined = <<>> THEN Dot
        ELSE win32Normalize(replaced)

\* how many leading elements two sequences share
CommonPrefixLen(a, b) ==
    LET n == IF Len(a) < Len(b) THEN Len(a) ELSE Len(b)
        agree == {k \in 0..n : \A i \in 1..k : a[i] = b[i]}
    IN  CHOOSE k \in agree : \A j \in agree : j <= k

\* the output of path.relative for two resolved paths given as segments that
\* share their first k: one ".." per remaining segment of `from`, then the
\* remaining segments of `to`
UpThenDown(fromSegs, toSegs, k, separator) ==
    JoinSegments([i \in 1..(Len(fromSegs) - k) |-> DotDot]
                    \o SubSeq(toSegs, k + 1, Len(toSegs)),
                 separator)

\* path.posix.resolve(p) in working directory c (an absolute path)
posixResolve(c, p) ==
    LET resolvedPath == IF Len(p) > 0 /\ CharAt(p, 0) = "/"
                        THEN p ELSE c \o <<"/">> \o p
    IN  <<"/">> \o normalizeString(resolvedPath, FALSE, "/", PosixSeps)

\* path.posix.relative(from, to) in working directory c
posixRelative(c, from, to) ==
    LET fromR == posixResolve(c, from)
        toR == posixResolve(c, to)
        fromSegs == Segments(fromR, PosixSeps)
        toSegs == Segments(toR, PosixSeps)
    IN  IF from = to \/ fromR = toR THEN <<>>
        ELSE UpThenDown(fromSegs, toSegs,
                        CommonPrefixLen(fromSegs, toSegs), "/")

\* the root path.win32.resolve matches at the start of one path
win32ResolveRoot(p) ==
    LET plain == [device |-> None, rootEnd |-> 0, isAbsolute |-> FALSE,
                  whole |-> None]
    IN  IF Len(p) = 0 THEN plain
        ELSE IF Len(p) = 1
        THEN IF isPathSeparator(CharAt(p, 0))
             THEN [plain EXCEPT !.rootEnd = 1, !.isAbsolute = TRUE]
             ELSE plain
        ELSE LET r == win32Root(p)
             IN  IF r.whole # None
                 THEN [r EXCEPT !.device = Some(Front(r.whole[1])),
                                !.rootEnd = Len(p), !.whole = None]
                 ELSE r

\* path.win32.resolve(p) in working directory c (an absolute path on a
\* drive), no per-drive directory being set in the environment
win32Resolve(c, p) ==
    LET r == win32ResolveRoot(p)
        cr == win32ResolveRoot(c)
        tailP == Slice(p, r.rootEnd, Len(p))
        tailC == Slice(c, cr.rootEnd, Len(c))
        sameDevice == \/ r.device = None
                      \/ ToLowerCase(r.device[1]) = ToLowerCase(cr.device[1])
        resolvedDevice == IF r.device # None THEN r.device[1] ELSE cr.device[1]
        resolvedTail == IF r.isAbsolute \/ ~sameDevice THEN tailP
                        ELSE tailC \o <<"\\">> \o tailP
    IN  resolvedDevice \o <<"\\">>
            \o normalizeString(resolvedTail, FALSE, "\\", WinSeps)

\* path.win32.relative(from, to) in working directory c: the comparison
\* ignores case, the output keeps the case of `to`
win32Relative(c, from, to) ==
    LET fromOrig == win32Resolve(c, from)
        toOrig == win32Resolve(c, to)
        fromSegs == Segments(ToLowerCase(fromOrig), {"\\"})
        toSegs == Segments(ToLowerCase(toOrig), {"\\"})
        k == CommonPrefixLen(fromSegs, toSegs)
    IN  IF from = to \/ fromOrig = toOrig
           \/ ToLowerCase(fromOrig) = ToLowerCase(toOrig) THEN <<>>
        ELSE IF k = 0 THEN toOrig
        ELSE UpThenDown(fromSegs, Segments(toOrig, {"\\"}), k, "\\")

\* path.relative of the running process
pathRelative(h, c, from, to) ==
    IF h = "windows" THEN win32Relative(c, from, to)
    ELSE posixRelative(c, from, to)

\* path.join of the running process
pathJoin(h, args) == IF h = "windows" THEN win32Join(args) ELSE posixJoin(args)

---------------------------------------------------------------------------
(* pathUtils.ts *)

WINDOWS_MAX_PATH == 260
POSIX_MAX_PATH == 4096
WINDOWS_ILLEGAL_CHARS == {"<", ">", ":", "\"", "|", "?", "*"} \cup ControlChars
POSIX_ILLEGAL_CHARS == {NUL}

Hosts == {"windows", "posix"}

\* platform() === 'win32' ? 'windows' : 'posix'
getCurrentOS(h) == IF h = "windows" THEN "windows" ELSE "posix"

getMaxPathLength(os) == IF os = "windows" THEN WINDOWS_MAX_PATH ELSE POSIX_MAX_PATH

\* options.os === 'auto' || !options.os ? getCurrentOS() : options.os
resolveOS(h, os) ==
    IF os = Some("auto") \/ os = None THEN getCurrentOS(h) ELSE os[1]

\* normalized.replace(/\\/g, '/')
ForwardSlashes(s) == [i \in 1..Len(s) |-> IF s[i] = "\\" THEN "/" ELSE s[i]]

\* normalized.replace(/[/\\]$/, '')
StripTrailingSeparator(s) ==
    IF Len(s) > 0 /\ Last(s) \in {"/", "\\"} THEN Front(s) ELSE s

\* removeTrailing without the length > 1 guard
removeTrailing_NoLengthGuard(s, removeTrailingSlash) ==
    IF removeTrailingSlash THEN StripTrailingSeparator(s) ELSE s

\* if (removeTrailingSlash && normalized.length > 1) strip one separator
removeTrailing(s, removeTrailingSlash) ==
    IF removeTrailingSlash /\ Len(s) > 1 THEN StripTrailingSeparator(s) ELSE s

normalizePath(h, pathStr, options) ==
    IF pathStr = <<>> THEN <<>>
    ELSE LET os == resolveOS(h, options.os)
             forceForwardSlash == OrElse(options.forceForwardSlash, TRUE)
             removeTrailingSlash == OrElse(options.removeTrailingSlash, TRUE)
             toLowerCase == OrElse(options.toLowerCase, os = "windows")
             normalized == pathNormalize(h, pathStr)
             slashed == IF forceForwardSlash
                        THEN ForwardSlashes(normalized) ELSE normalized
             trimmed == removeTrailing(slashed, removeTrailingSlash)
         IN  IF normalized = Dot THEN pathStr
             ELSE IF toLowerCase THEN ToLowerCase(trimmed) ELSE trimmed

\* the options object { os } that validatePath and sanitizePath pass on
OnlyOS(os) ==
    [os |-> Some(os), forceForwardSlash |-> None,
     removeTrailingSlash |-> None, toLowerCase |-> None]

\* normalizePath(pathStr) with no options argument
NoOptions ==
    [os |-> None, forceForwardSlash |-> None,
     removeTrailingSlash |-> None, toLowerCase |-> None]

illegalCharsOf(os) ==
    IF os = "windows" THEN WINDOWS_ILLEGAL_CHARS ELSE POSIX_ILLEGAL_CHARS

\* pathStr.match(re) for a regular expression with the g flag: null (None)
\* or the array of every matched substring
MatchGlobal(s, class) ==
    LET all == SelectSeq(s, LAMBDA c : c \in class)
    IN  IF all = <<>> THEN None ELSE Some(all)

\* illegalMatch.index: the array a global match returns has no index
\* property, so the read yields undefined
MatchIndex(matches) == None

\* pathStr.replace(re, '') for a regular expression with the g flag
RemoveAll(s, class) == SelectSeq(s, LAMBDA c : c \notin class)

Error(code, message, position) ==
    [code |-> code, message |-> message, position |-> position]

\* options.maxLength || getMaxPathLength(os)
effectiveMaxLength(maxLength, os) ==
    IF maxLength = None \/ maxLength[1] = 0
    THEN getMaxPathLength(os) ELSE maxLength[1]

lengthErrors(pathStr, maxLength) ==
    IF Len(pathStr) > maxLength
    THEN <<Error("TOO_LONG",
                 <<"Path exceeds maximum length of ", ToString(maxLength),
                   " characters">>, None)>>
    ELSE <<>>

illegalCharErrors(pathStr, os) ==
    LET illegalMatch == MatchGlobal(pathStr, illegalCharsOf(os))
    IN  IF illegalMatch # None
        THEN <<Error("ILLEGAL_CHAR",
                     <<"Path contains illegal character: ", illegalMatch[1][1]>>,
                     MatchIndex(illegalMatch[1]))>>
        ELSE <<>>

traversalErrors(pathStr, allowTraversal) ==
    IF ~allowTraversal /\ Includes(pathStr, DotDot)
    THEN <<Error("TRAVERSAL", <<"Path traversal (..) is not allowed">>, None)>>
    ELSE <<>>

policyErrors(h, pathStr, allowAbsolute, allowRelative) ==
    LET isAbsolute == pathIsAbsolute(h, pathStr)
    IN  (IF isAbsolute /\ ~allowAbsolute
         THEN <<Error("ABSOLUTE_NOT_ALLOWED",
                      <<"Absolute paths are not allowed">>, None)>>
         ELSE <<>>)
        \o
        (IF ~isAbsolute /\ ~allowRelative
         THEN <<Error("RELATIVE_NOT_ALLOWED",
                      <<"Relative paths are not allowed">>, None)>>
         ELSE <<>>)

\* validationErrors returning at the first check that fires
validationErrors_FirstOnly(h, pathStr, options) ==
    LET os == resolveOS(h, options.os)
        maxLength == effectiveMaxLength(options.maxLength, os)
        allowTraversal == OrElse(options.allowTraversal, FALSE)
        allowAbsolute == OrElse(options.allowAbsolute, TRUE)
        allowRelative == OrElse(options.allowRelative, TRUE)
        all == lengthErrors(pathStr, maxLength)
               \o illegalCharErrors(pathStr, os)
               \o traversalErrors(pathStr, allowTraversal)
               \o policyErrors(h, pathStr, allowAbsolute, allowRelative)
    IN  IF all = <<>> THEN <<>> ELSE <<all[1]>>

\* validationErrors with the traversal check ahead of the character check
validationErrors_TraversalFirst(h, pathStr, options) ==
    LET os == resolveOS(h, options.os)
        maxLength == effectiveMaxLength(options.maxLength, os)
        allowTraversal == OrElse(options.allowTraversal, FALSE)
        allowAbsolute == OrElse(options.allowAbsolute, TRUE)
        allowRelative == OrElse(options.allowRelative, TRUE)
    IN  lengthErrors(pathStr, maxLength)
        \o traversalErrors(pathStr, allowTraversal)
        \o illegalCharErrors(pathStr, os)
        \o policyErrors(h, pathStr, allowAbsolute, allowRelative)

\* the errors array after the four checks of a non-empty path
validationErrors(h, pathStr, options) ==
    LET os == resolveOS(h, options.os)
        maxLength == effectiveMaxLength(options.maxLength, os)
        allowTraversal == OrElse(options.allowTraversal, FALSE)
        allowAbsolute == OrElse(options.allowAbsolute, TRUE)
        allowRelative == OrElse(options.allowRelative, TRUE)
    IN  lengthErrors(pathStr, maxLength)
        \o illegalCharErrors(pathStr, os)
        \o traversalErrors(pathStr, allowTraversal)
        \o policyErrors(h, pathStr, allowAbsolute, allowRelative)

Invalid(errors) ==
    [isValid |-> FALSE, normalizedPath |-> None, errors |-> Some(errors)]

Valid(normalizedPath) ==
    [isValid |-> TRUE, normalizedPath |-> Some(normalizedPath), errors |-> None]

\* the return statements at the end of validatePath
validationResult(h, pathStr, options, errors) ==
    IF Len(errors) = 0
    THEN Valid(normalizePath(h, pathStr, OnlyOS(resolveOS(h, options.os))))
    ELSE Invalid(errors)

EmptyPathError == Error("EMPTY_PATH", <<"Path cannot be empty">>, None)

\* validatePath pushing EMPTY_PATH onto errors instead of returning
validatePath_EmptyAccumulates(h, pathStr, options) ==
    validationResult(h, pathStr, options,
                     (IF pathStr = <<>> THEN <<EmptyPathError>> ELSE <<>>)
                     \o validationErrors(h, pathStr, options))

validatePath(h, pathStr, options) ==
    IF pathStr = <<>> THEN Invalid(<<EmptyPathError>>)
    ELSE validationResult(h, pathStr, options,
                          validationErrors(h, pathStr, options))

\* joinPaths handing a single segment back as it is
joinPaths_SingleUnchanged(h, paths) ==
    IF Len(paths) = 1 THEN paths[1] ELSE pathJoin(h, paths)

joinPaths(h, paths) == pathJoin(h, paths)

getRelativePath(h, c, from, to) == pathRelative(h, c, from, to)

isPathTraversal(h, pathStr) ==
    IF pathStr = <<>> THEN FALSE
    ELSE Includes(normalizePath(h, pathStr, NoOptions), DotDot)

\* os: OSType = getCurrentOS() -- the default applies only to a missing
\* argument; 'auto' passed explicitly stays 'auto'
sanitizePath(h, pathStr, osArg) ==
    LET os == IF osArg = None THEN getCurrentOS(h) ELSE osArg[1]
    IN  IF pathStr = <<>> THEN <<>>
        ELSE normalizePath(h, RemoveAll(pathStr, illegalCharsOf(os)), OnlyOS(os))

---------------------------------------------------------------------------
(* Inputs *)

\* 'path/to/file?.txt'
FileQPath ==
    <<"p", "a", "t", "h", "/", "t", "o", "/", "f", "i", "l", "e", "?", ".",
      "t", "x", "t">>

\* '../path/to/file?.txt'
UpFileQPath == <<".", ".", "/">> \o FileQPath

\* 'a:\a\..\A', '\\a\a', '\\a\a\..\a\', 'A/../'
SamplePaths ==
    {FileQPath, UpFileQPath,
     <<"a", ":", "\\", "a", "\\", ".", ".", "\\", "A">>,
     <<"\\", "\\", "a", "\\", "a">>,
     <<"\\", "\\", "a", "\\", "a", "\\", ".", ".", "\\", "a", "\\">>,
     <<"A", "/", ".", ".", "/">>}

\* paths at and just over the two default limits
LongPaths ==
    {Repeat("a", n) : n \in {WINDOWS_MAX_PATH, WINDOWS_MAX_PATH + 1,
                             POSIX_MAX_PATH, POSIX_MAX_PATH + 1}}

Paths == Strings(Alphabet, MaxLen) \cup SamplePaths
CasePaths == Strings(CaseAlphabet, MaxLen) \cup SamplePaths

BoolOption == {None, Some(TRUE), Some(FALSE)}
OSOption == {None, Some("auto"), Some("windows"), Some("posix")}

NormalizationOptions ==
    [os : OSOption, forceForwardSlash : BoolOption,
     removeTrailingSlash : BoolOption, toLowerCase : BoolOption]

\* allowAbsolute and allowRelative default to true, so leaving one out and
\* passing true are the same call: only the two distinct cases are drawn
ValidationOptions ==
    [os : OSOption, allowTraversal : BoolOption,
     maxLength : {None, Some(0), Some(LimitOverride)},
     allowAbsolute : {None, Some(FALSE)}, allowRelative : {None, Some(FALSE)}]

---------------------------------------------------------------------------
(* Calls: a caller on some host picks a function and its arguments, and   *)
(* the call returns.                                                      *)

\* the working directories a process may run in, the first being the root
WorkingDirectories(h) ==
    IF h = "windows"
    THEN <<<<"a", ":", "\\">>, <<"a", ":", "\\", "a">>,
           <<"a", ":", "\\", "A", "\\", "a">>>>
    ELSE <<<<"/">>, <<"/", "a">>, <<"/", "A", "/", "a">>>>

Cwds(h) == {WorkingDirectories(h)[i] : i \in 1..Len(WorkingDirectories(h))}

\* a call of a function that never reads the working directory
InitCall(f, paths, options) ==
    /\ host \in Hosts
    /\ cwd = WorkingDirectories(host)[1]
    /\ fn = f
    /\ path \in paths
    /\ opts \in options
    /\ result = None
    /\ pc = "ready"
    /\ pass = 0

Return(r) ==
    /\ result' = r
    /\ pc' = "done"
    /\ pass' = pass + 1
    /\ UNCHANGED <<host, cwd, fn, path, opts>>

Done(f) == pc = "done" /\ fn = f

\* validatePath(path, opts)
InitValidate == InitCall("validatePath", Paths \cup LongPaths, ValidationOptions)

Validate ==
    /\ pc = "ready"
    /\ fn = "validatePath"
    /\ Return(validatePath(host, path, opts))

SpecValidate == InitValidate /\ [][Validate]_vars

\* validatePath(path, opts), and again on the normalizedPath it returned
InitRevalidate == InitCall("validatePath", Paths, ValidationOptions)

Revalidate ==
    /\ Done("validatePath")
    /\ result.isValid
    /\ pass < MaxPasses
    /\ path' = result.normalizedPath[1]
    /\ pc' = "ready"
    /\ UNCHANGED <<host, cwd, fn, opts, result, pass>>

NextRevalidate == Validate \/ Revalidate

SpecRevalidate == InitRevalidate /\ [][NextRevalidate]_vars

\* normalizePath(path, opts), and again on what it returned
InitNormalize == InitCall("normalizePath", CasePaths, NormalizationOptions)

Normalize ==
    /\ pc = "ready"
    /\ fn = "normalizePath"
    /\ Return(normalizePath(host, path, opts))

Renormalize ==
    /\ Done("normalizePath")
    /\ pass < MaxPasses
    /\ path' = result
    /\ pc' = "ready"
    /\ UNCHANGED <<host, cwd, fn, opts, result, pass>>

NextNormalize == Normalize \/ Renormalize

SpecNormalize == InitNormalize /\ [][NextNormalize]_vars

\* isPathTraversal(path)
InitTraversal == InitCall("isPathTraversal", Paths, {NoOptions})

CheckTraversal ==
    /\ pc = "ready"
    /\ fn = "isPathTraversal"
    /\ Return(isPathTraversal(host, path))

SpecTraversal == InitTraversal /\ [][CheckTraversal]_vars

\* sanitizePath(path, os)
InitSanitize == InitCall("sanitizePath", Paths, [os : OSOption])

Sanitize ==
    /\ pc = "ready"
    /\ fn = "sanitizePath"
    /\ Return(sanitizePath(host, path, opts.os))

SpecSanitize == InitSanitize /\ [][Sanitize]_vars

\* joinPaths(...path): no segment, one segment, two short ones, and the
\* tests' ('path', '', 'file.txt')
JoinArguments ==
    {<<>>, <<<<"p", "a", "t", "h">>, <<>>,
             <<"f", "i", "l", "e", ".", "t", "x", "t">>>>}
    \cup {<<s>> : s \in Paths}
    \cup {<<s, t>> : s \in Strings(Alphabet, MaxSegLen),
                     t \in Strings(Alphabet, MaxSegLen)}

InitJoin == InitCall("joinPaths", JoinArguments, {NoOptions})

Join ==
    /\ pc = "ready"
    /\ fn = "joinPaths"
    /\ Return(joinPaths(host, path))

SpecJoin == InitJoin /\ [][Join]_vars

\* getRelativePath(from, to): every pair of short paths, and the tests'
\* ('/path/to', '/path/to/file.txt') and ('.', 'file.txt')
RelativeArguments ==
    {<<<<"/", "p", "a", "t", "h", "/", "t", "o">>,
       <<"/", "p", "a", "t", "h", "/", "t", "o", "/", "f", "i", "l", "e", ".",
         "t", "x", "t">>>>,
     <<Dot, <<"f", "i", "l", "e", ".", "t", "x", "t">>>>}
    \cup {<<s, t>> : s \in Strings(Alphabet, MaxSegLen),
                     t \in Strings(Alphabet, MaxSegLen)}

InitRelative ==
    /\ host \in Hosts
    /\ cwd \in Cwds(host)
    /\ fn = "getRelativePath"
    /\ path \in RelativeArguments
    /\ opts = NoOptions
    /\ result = None
    /\ pc = "ready"
    /\ pass = 0

Relative ==
    /\ pc = "ready"
    /\ fn = "getRelativePath"
    /\ Return(getRelativePath(host, cwd, path[1], path[2]))

SpecRelative == InitRelative /\ [][Relative]_vars

---------------------------------------------------------------------------
(* Properties *)

ResolvedOS == resolveOS(host, opts.os)

\* the codes of the errors a validatePath call returned, in order
ErrorCodes ==
    IF result.errors = None THEN <<>>
    ELSE [i \in 1..Len(result.errors[1]) |-> result.errors[1][i].code]

HasCode(c) == \E i \in 1..Len(ErrorCodes) : ErrorCodes[i] = c

\* position of the first occurrence of code c in the errors (0: none)
CodeIndex(c) ==
    IF HasCode(c) THEN SetMin({i \in 1..Len(ErrorCodes) : ErrorCodes[i] = c})
    ELSE 0

HasIllegalChar(p, os) == \E i \in 1..Len(p) : p[i] \in illegalCharsOf(os)

\* zero-based index of the first character of p that is illegal for os
FirstIllegalIndex(p, os) ==
    SetMin({i \in 0..(Len(p) - 1) : CharAt(p, i) \in illegalCharsOf(os)})

AllowTraversal == OrElse(opts.allowTraversal, FALSE)
AllowAbsolute == OrElse(opts.allowAbsolute, TRUE)
AllowRelative == OrElse(opts.allowRelative, TRUE)

\* C1: normalizePath applied to its own output, under the same options and
\* on the same host, returns that output unchanged.
NormalizeIdempotent ==
    (Done("normalizePath") /\ pass >= 2) => result = path

\* whether resolving the "." and ".." segments of p leaves a ".." that has
\* nothing to pop: p escapes the directory it starts from
EscapesStart(p) ==
    LET absolute == Len(p) > 0 /\ isPathSeparator(CharAt(p, 0))
        kept == ResolveSegments(Segments(p, WinSeps), <<>>, ~absolute)
    IN  \E i \in 1..Len(kept) : kept[i] = DotDot

\* C2: isPathTraversal(p) is true exactly when resolving the "." and ".."
\* segments of p escapes its starting point; so it is false for "", for a
\* path with ".." only inside a name and for a path resolving to ".".
TraversalIffEscapes ==
    Done("isPathTraversal") => (result = EscapesStart(path))

CheckOrder ==
    <<"TOO_LONG", "ILLEGAL_CHAR", "TRAVERSAL", "ABSOLUTE_NOT_ALLOWED",
      "RELATIVE_NOT_ALLOWED">>

\* the condition of each finding, as validatePath evaluates it for the call
FindingHolds(code) ==
    CASE code = "TOO_LONG" ->
            Len(path) > effectiveMaxLength(opts.maxLength, ResolvedOS)
      [] code = "ILLEGAL_CHAR" -> HasIllegalChar(path, ResolvedOS)
      [] code = "TRAVERSAL" -> ~AllowTraversal /\ Includes(path, DotDot)
      [] code = "ABSOLUTE_NOT_ALLOWED" ->
            pathIsAbsolute(host, path) /\ ~AllowAbsolute
      [] code = "RELATIVE_NOT_ALLOWED" ->
            ~pathIsAbsolute(host, path) /\ ~AllowRelative

ExpectedCodes == SelectSeq(CheckOrder, FindingHolds)

\* C3: for a non-empty input the errors are exactly the findings whose
\* conditions hold, in check order, none skipped and none repeated; the
\* result is invalid with that list and no normalizedPath when it is not
\* empty, and valid with normalizedPath = normalizePath(input, {os}) and no
\* errors when it is.
ErrorsAccumulateInOrder ==
    (Done("validatePath") /\ path # <<>>) =>
        IF ExpectedCodes = <<>>
        THEN /\ result.isValid
             /\ result.errors = None
             /\ result.normalizedPath =
                    Some(normalizePath(host, path, OnlyOS(ResolvedOS)))
        ELSE /\ ~result.isValid
             /\ result.normalizedPath = None
             /\ result.errors # None
             /\ ErrorCodes = ExpectedCodes

\* a call that found four things wrong at once
FourFindings ==
    /\ Done("validatePath")
    /\ ErrorCodes = <<"TOO_LONG", "ILLEGAL_CHAR", "TRAVERSAL",
                      "RELATIVE_NOT_ALLOWED">>

\* C4: when the input holds an illegal character for the resolved OS there
\* is exactly one ILLEGAL_CHAR error, and its position is the zero-based
\* index of the first illegal character.
IllegalCharPositionIsFirstIndex ==
    (Done("validatePath") /\ path # <<>> /\ HasIllegalChar(path, ResolvedOS)) =>
        /\ Cardinality({i \in 1..Len(ErrorCodes) :
                           ErrorCodes[i] = "ILLEGAL_CHAR"}) = 1
        /\ result.errors[1][CodeIndex("ILLEGAL_CHAR")].position =
               Some(FirstIllegalIndex(path, ResolvedOS))

\* path.isAbsolute by the rules of a target OS
IsAbsoluteFor(os, p) ==
    IF os = "windows" THEN win32IsAbsolute(p) ELSE posixIsAbsolute(p)

\* C5: ABSOLUTE_NOT_ALLOWED is emitted exactly when the path is absolute by
\* the rules of the resolved target OS and allowAbsolute is false,
\* RELATIVE_NOT_ALLOWED exactly when it is relative by those rules and
\* allowRelative is false, whatever the host.
AbsolutenessByTargetOS ==
    (Done("validatePath") /\ path # <<>>) =>
        /\ HasCode("ABSOLUTE_NOT_ALLOWED") <=>
              (IsAbsoluteFor(ResolvedOS, path) /\ ~AllowAbsolute)
        /\ HasCode("RELATIVE_NOT_ALLOWED") <=>
              (~IsAbsoluteFor(ResolvedOS, path) /\ ~AllowRelative)

\* C6: sanitizePath(p, os) deletes every character illegal for the resolved
\* OS (auto and a missing os resolving to the host) and normalizes with that
\* OS's defaults, so no illegal character of the resolved OS is left; ''
\* gives ''.
SanitizedHasNoIllegalChar ==
    Done("sanitizePath") =>
        /\ result = normalizePath(host,
                                  RemoveAll(path, illegalCharsOf(ResolvedOS)),
                                  OnlyOS(ResolvedOS))
        /\ ~HasIllegalChar(result, ResolvedOS)
        /\ (path = <<>> => result = <<>>)

\* the limit C7 states: the override whenever one is given, 0 included
StatedLimit ==
    IF opts.maxLength # None THEN opts.maxLength[1]
    ELSE getMaxPathLength(ResolvedOS)

\* C7: TOO_LONG is emitted exactly when the input is longer than
\* options.maxLength if given (0 included), else than the OS default.
TooLongIffOverStatedLimit ==
    (Done("validatePath") /\ path # <<>>) =>
        (HasCode("TOO_LONG") <=> Len(path) > StatedLimit)

\* C8: validatePath('') is invalid with exactly one error, EMPTY_PATH,
\* whatever the options.
EmptyPathSingleError ==
    (Done("validatePath") /\ path = <<>>) =>
        /\ ~result.isValid
        /\ result.normalizedPath = None
        /\ ErrorCodes = <<"EMPTY_PATH">>

\* '' validated with relative paths forbidden and a maxLength of 0
EmptyPathUnderStrictOptions ==
    /\ Done("validatePath")
    /\ path = <<>>
    /\ opts.allowRelative = Some(FALSE)
    /\ opts.maxLength = Some(0)
    /\ ErrorCodes = <<"EMPTY_PATH">>

\* a Windows-target call on an input with ".." and an illegal character,
\* traversal not allowed
TraversalAndIllegalOnWindows ==
    /\ Done("validatePath")
    /\ ResolvedOS = "windows"
    /\ ~AllowTraversal
    /\ Includes(path, DotDot)
    /\ HasIllegalChar(path, "windows")

\* C9 as stated: such a call reports TRAVERSAL and ILLEGAL_CHAR, TRAVERSAL
\* first.
TraversalBeforeIllegalChar ==
    TraversalAndIllegalOnWindows =>
        /\ HasCode("TRAVERSAL")
        /\ HasCode("ILLEGAL_CHAR")
        /\ CodeIndex("TRAVERSAL") < CodeIndex("ILLEGAL_CHAR")

\* C9 amended: such a call reports ILLEGAL_CHAR and TRAVERSAL, ILLEGAL_CHAR
\* first.
IllegalCharBeforeTraversal ==
    TraversalAndIllegalOnWindows =>
        /\ ~result.isValid
        /\ HasCode("TRAVERSAL")
        /\ HasCode("ILLEGAL_CHAR")
        /\ CodeIndex("ILLEGAL_CHAR") < CodeIndex("TRAVERSAL")

\* validatePath('../path/to/file?.txt', {os: 'windows'}) has returned
UpFileQOnWindows ==
    /\ TraversalAndIllegalOnWindows
    /\ path = UpFileQPath
    /\ opts.os = Some("windows")
    /\ opts.allowTraversal = Some(FALSE)

DefaultPolicy ==
    /\ opts.allowTraversal = None
    /\ opts.maxLength = None
    /\ opts.allowAbsolute = None
    /\ opts.allowRelative = None

\* a non-empty input with no "..", no illegal character of the resolved OS
\* and within the OS limit, validated under the default policy
CleanCall ==
    /\ Done("validatePath")
    /\ DefaultPolicy
    /\ path # <<>>
    /\ ~Includes(path, DotDot)
    /\ ~HasIllegalChar(path, ResolvedOS)
    /\ Len(path) <= getMaxPathLength(ResolvedOS)

\* C10: such a call returns valid with a non-empty normalizedPath.
CleanPathIsValid ==
    CleanCall =>
        /\ result.isValid
        /\ result.normalizedPath # None
        /\ Len(result.normalizedPath[1]) > 0

\* the root directory, the shortest path a trailing separator could empty
CleanRootCall ==
    /\ CleanCall
    /\ path \in {<<"/">>, <<"\\">>}
    /\ result.isValid
    /\ result.normalizedPath = Some(<<"/">>)

\* C11 as stated: joinPaths with one segment returns it unchanged, and
\* joinPaths() returns '.'.
SingleSegmentUnchanged ==
    Done("joinPaths") =>
        /\ Len(path) = 1 => result = path[1]
        /\ Len(path) = 0 => result = Dot

\* C11 amended: joinPaths with one segment s returns path.normalize(s) of
\* the host ('.' for the empty string), and joinPaths() returns '.'.
SingleSegmentNormalized ==
    Done("joinPaths") =>
        /\ Len(path) = 1 => result = pathNormalize(host, path[1])
        /\ Len(path) = 0 => result = Dot

\* one segment holding a ".." that the join resolved away
SingleSegmentResolved ==
    /\ Done("joinPaths")
    /\ Len(path) = 1
    /\ Includes(path[1], DotDot)
    /\ ~Includes(result, DotDot)
    /\ result # path[1]

\* the segments of p once "." is dropped and ".." has popped what it can
LexicalSegments(h, p) ==
    LET seps == IF h = "windows" THEN WinSeps ELSE PosixSeps
    IN  ResolveSegments(Segments(p, seps), <<>>, TRUE)

\* the relative path from the two strings alone: past the longest common
\* leading segments, one ".." per remaining segment of `from`, then the
\* remaining segments of `to`
LexicalRelative(h, from, to) ==
    LET fromSegs == LexicalSegments(h, from)
        toSegs == LexicalSegments(h, to)
    IN  UpThenDown(fromSegs, toSegs, CommonPrefixLen(fromSegs, toSegs),
                   IF h = "windows" THEN "\\" ELSE "/")

\* C12: getRelativePath(from, to) does not depend on the working directory
\* and equals the lexical segment comparison of from and to; for equal
\* arguments it is ''.
RelativeIsLexical ==
    Done("getRelativePath") =>
        /\ \A c \in Cwds(host) :
              getRelativePath(host, c, path[1], path[2]) = result
        /\ result = LexicalRelative(host, path[1], path[2])
        /\ (path[1] = path[2] => result = <<>>)

\* C13: a normalizedPath that validatePath returned is itself valid under
\* the same options; when allowAbsolute is false it is not absolute, and
\* when allowTraversal is false it contains no "..".
ValidStableUnderNormalization ==
    Done("validatePath") =>
        /\ pass >= 2 => result.isValid
        /\ (result.isValid /\ ~AllowAbsolute) =>
               ~pathIsAbsolute(host, result.normalizedPath[1])
        /\ (result.isValid /\ ~AllowTraversal) =>
               ~Includes(result.normalizedPath[1], DotDot)

===========================================================================
